---- MODULE Spec2Model ----
(***************************************************************************)
(* httpman: a fluent request builder in front of an HTTP executor.         *)
(*                                                                         *)
(* One client (Httpman) and one Request created from it.  The state is    *)
(* the fields of both objects, plus what the last Send / Decode / Do call  *)
(* returned and did to the response body and to the decode targets.        *)
(*                                                                         *)
(* Go strings that are parsed by the code are modelled by their syntax:    *)
(* a URL string is a record of its parts plus a flag for a raw control     *)
(* character (which makes url.Parse fail); a raw query is a sequence of    *)
(* key/value tokens, one of which may be an invalid escape (which makes    *)
(* url.ParseQuery fail).  Paths hold no dot segments.                      *)
(***************************************************************************)
EXTENDS Integers, Sequences, FiniteSets, TLC

VARIABLES baseURL, cHeader, cQueryStructs, cQueryMap,
          method, absoluteURL, header, bodyProvider, queryStructs, queryMap,
          last, sent, successV, failureV, resp, ret, trace

clientVars == <<baseURL, cHeader, cQueryStructs, cQueryMap>>
requestVars == <<method, absoluteURL, header, bodyProvider, queryStructs, queryMap>>
doVars == <<successV, failureV, resp, ret, trace>>
vars == <<baseURL, cHeader, cQueryStructs, cQueryMap,
          method, absoluteURL, header, bodyProvider, queryStructs, queryMap,
          last, sent, successV, failureV, resp, ret, trace>>

(***************************************************************************)
(* Bounds of the model.                                                    *)
(***************************************************************************)
\* longest list of query structures a scope may hold before a call is refused
MaxStructs == 2
\* most values the client may hold for one header key
MaxHeaderVals == 2

(***************************************************************************)
(* Sequences.                                                              *)
(***************************************************************************)
Front(s) == IF Len(s) = 0 THEN s ELSE SubSeq(s, 1, Len(s) - 1)

(***************************************************************************)
(* net/url: strings, Parse, String, ResolveReference.                      *)
(***************************************************************************)
BadEscape == "%zz"

URLString(ctl, host, abs, segs, slash, rawq) ==
    [ctl |-> ctl, host |-> host, abs |-> abs, segs |-> segs, slash |-> slash,
     rawq |-> rawq]

\* "https://example.com/api/"
BaseDir == URLString(FALSE, "example.com", TRUE, <<"api">>, TRUE, <<>>)
\* "https://example.com/api/v1?b=0"
BaseQuery == URLString(FALSE, "example.com", TRUE, <<"api", "v1">>, FALSE, <<<<"b", "0">>>>)
\* "https://exa\x7fmple.com/api/": a raw control character
BaseCtl == URLString(TRUE, "example.com", TRUE, <<"api">>, TRUE, <<>>)
\* "https://example.com/api/?a=%zz": parses as a URL, not as a query
BaseBadQuery == URLString(FALSE, "example.com", TRUE, <<"api">>, TRUE, <<<<BadEscape, "">>>>)
BaseURLs == {BaseDir, BaseQuery, BaseCtl, BaseBadQuery}

\* "widgets/1", "/root", "w?a=9", "", "bad\x7f", "w?%zz"
PathRel == URLString(FALSE, "", FALSE, <<"widgets", "1">>, FALSE, <<>>)
PathAbs == URLString(FALSE, "", TRUE, <<"root">>, FALSE, <<>>)
PathWithQuery == URLString(FALSE, "", FALSE, <<"w">>, FALSE, <<<<"a", "9">>>>)
PathEmpty == URLString(FALSE, "", FALSE, <<>>, FALSE, <<>>)
PathCtl == URLString(TRUE, "", FALSE, <<"bad">>, FALSE, <<>>)
PathBadQuery == URLString(FALSE, "", FALSE, <<"w">>, FALSE, <<<<BadEscape, "">>>>)
Paths == {PathRel, PathAbs, PathWithQuery, PathEmpty, PathCtl, PathBadQuery}

\* url.Parse: fails on a control character; the query is kept raw, unchecked
URLParse(s) ==
    [err |-> s.ctl,
     url |-> [Host |-> s.host, abs |-> s.abs, segs |-> s.segs, slash |-> s.slash,
              RawQuery |-> s.rawq]]

\* (*URL).String
URLStringOf(u) == URLString(FALSE, u.Host, u.abs, u.segs, u.slash, u.RawQuery)

\* resolvePath: the reference's path against the base's directory
ResolvePath(base, ref) ==
    IF ref.segs = <<>> /\ ~ref.abs /\ ~ref.slash
    THEN [segs |-> base.segs, slash |-> base.slash]
    ELSE IF ref.abs
         THEN [segs |-> ref.segs, slash |-> ref.slash]
         ELSE [segs |-> (IF base.slash THEN base.segs ELSE Front(base.segs)) \o ref.segs,
               slash |-> ref.slash]

\* (*URL).ResolveReference
ResolveReference(u, ref) ==
    IF ref.Host # ""
    THEN ref
    ELSE LET p == ResolvePath(u, ref)
             emptyRef == ref.segs = <<>> /\ ~ref.abs /\ ~ref.slash /\ ref.RawQuery = <<>>
         IN  [Host |-> u.Host, abs |-> TRUE, segs |-> p.segs, slash |-> p.slash,
              RawQuery |-> IF emptyRef THEN u.RawQuery ELSE ref.RawQuery]

(***************************************************************************)
(* Methods.                                                                *)
(***************************************************************************)
Methods == {"HEAD", "GET", "POST", "PUT", "PATCH", "DELETE", "OPTIONS", "TRACE", "CONNECT"}

\* a variant of PathResolved: the path resolved against the request's
\* previous URL instead of the client's base URL
PathResolvedAgainstRequest(base, abs, path) ==
    LET b == URLParse(abs)
        p == URLParse(path)
    IN  IF ~URLParse(base).err /\ ~b.err /\ ~p.err
        THEN URLStringOf(ResolveReference(b.url, p.url))
        ELSE abs

\* Path: the reference resolved against the CLIENT's base URL; on a parse
\* failure of either, the request's URL stays as it is.
PathResolved(base, abs, path) ==
    LET b == URLParse(base)
        p == URLParse(path)
    IN  IF ~b.err /\ ~p.err
        THEN URLStringOf(ResolveReference(b.url, p.url))
        ELSE abs

Path(path) ==
    /\ absoluteURL' = PathResolved(baseURL, absoluteURL, path)
    /\ last' = [op |-> "Path", path |-> path]
    /\ UNCHANGED <<method, header, bodyProvider, queryStructs, queryMap>>
    /\ sent' = <<>>
    /\ UNCHANGED <<clientVars, doVars>>

\* the nine method-and-path setters: r.method = m; return r.Path(pathURL)
SetMethodPath(m, pathURL) ==
    /\ method' = m
    /\ absoluteURL' = PathResolved(baseURL, absoluteURL, pathURL)
    /\ last' = [op |-> m, path |-> pathURL]
    /\ UNCHANGED <<header, bodyProvider, queryStructs, queryMap>>
    /\ sent' = <<>>
    /\ UNCHANGED <<clientVars, doVars>>

\* (named Head in the source; Head is the Sequences operator)
RequestHead(pathURL) == SetMethodPath("HEAD", pathURL)
Get(pathURL) == SetMethodPath("GET", pathURL)
Post(pathURL) == SetMethodPath("POST", pathURL)
Put(pathURL) == SetMethodPath("PUT", pathURL)
Patch(pathURL) == SetMethodPath("PATCH", pathURL)
Delete(pathURL) == SetMethodPath("DELETE", pathURL)
Options(pathURL) == SetMethodPath("OPTIONS", pathURL)
Trace(pathURL) == SetMethodPath("TRACE", pathURL)
Connect(pathURL) == SetMethodPath("CONNECT", pathURL)

(***************************************************************************)
(* net/http: Header.                                                       *)
(***************************************************************************)
contentType == "Content-Type"
jsonContentType == "application/json"
formContentType == "application/x-www-form-urlencoded"

HeaderKeys == {"X-Key", contentType}
HeaderKeyInputs == {"x-key", "X-Key", contentType}
HeaderValues == {"v1", "v2"}

\* textproto.CanonicalMIMEHeaderKey
CanonicalHeaderKey(key) == IF key = "x-key" THEN "X-Key" ELSE key

EmptyHeader == [k \in HeaderKeys |-> <<>>]
HeaderAdd(h, key, value) == [h EXCEPT ![CanonicalHeaderKey(key)] = Append(@, value)]
HeaderSet(h, key, value) == [h EXCEPT ![CanonicalHeaderKey(key)] = <<value>>]

(***************************************************************************)
(* Client: headers.                                                        *)
(***************************************************************************)
ClientAddHeader(key, value) ==
    /\ Len(cHeader[CanonicalHeaderKey(key)]) < MaxHeaderVals
    /\ cHeader' = HeaderAdd(cHeader, key, value)
    /\ last' = [op |-> "Client.AddHeader", key |-> key, value |-> value]
    /\ sent' = <<>>
    /\ UNCHANGED <<baseURL, cQueryStructs, cQueryMap, requestVars, doVars>>

ClientSetHeader(key, value) ==
    /\ cHeader' = HeaderSet(cHeader, key, value)
    /\ last' = [op |-> "Client.SetHeader", key |-> key, value |-> value]
    /\ sent' = <<>>
    /\ UNCHANGED <<baseURL, cQueryStructs, cQueryMap, requestVars, doVars>>

(***************************************************************************)
(* Request: headers and body providers.                                    *)
(***************************************************************************)
SetHeader(key, value) ==
    /\ header' = HeaderSet(header, key, value)
    /\ last' = [op |-> "SetHeader", key |-> key, value |-> value]
    /\ sent' = <<>>
    /\ UNCHANGED <<method, absoluteURL, bodyProvider, queryStructs, queryMap>>
    /\ UNCHANGED <<clientVars, doVars>>

\* A provider: its type, whether its Body() succeeds, and, for a caller's
\* own BodyProvider, the content type it declares.
NoProvider == [kind |-> "nil", ok |-> TRUE, ct |-> ""]
RawProvider == [kind |-> "raw", ok |-> TRUE, ct |-> ""]
JSONProvider(encodable) == [kind |-> "json", ok |-> encodable, ct |-> ""]
FormProvider(encodable) == [kind |-> "form", ok |-> encodable, ct |-> ""]
CustomProvider(ok, ct) == [kind |-> "custom", ok |-> ok, ct |-> ct]
CustomProviders == {CustomProvider(ok, ct) : ok \in BOOLEAN, ct \in {"", "text/plain"}}

\* the ContentType method of each provider type
ProviderContentType(p) ==
    CASE p.kind = "raw" -> ""
      [] p.kind = "json" -> jsonContentType
      [] p.kind = "form" -> formContentType
      [] OTHER -> p.ct

\* the Body method of each provider type: whether it returns an error
ProviderBodyErr(p) ==
    CASE p.kind = "raw" -> FALSE
      [] OTHER -> ~p.ok

\* a variant of HeaderAfterProvider: Content-Type set even when empty
HeaderAfterProviderAlways(h, body) == HeaderSet(h, contentType, ProviderContentType(body))

\* BodyProvider: install the provider; set Content-Type only when the
\* provider declares a non-empty one
HeaderAfterProvider(h, body) ==
    LET ct == ProviderContentType(body)
    IN  IF ct # "" THEN HeaderSet(h, contentType, ct) ELSE h

InstallProvider(op, body) ==
    /\ IF body = NoProvider
       THEN UNCHANGED <<bodyProvider, header>>
       ELSE /\ bodyProvider' = body
            /\ header' = HeaderAfterProvider(header, body)
    /\ last' = [op |-> op, body |-> body]
    /\ sent' = <<>>
    /\ UNCHANGED <<method, absoluteURL, queryStructs, queryMap>>
    /\ UNCHANGED <<clientVars, doVars>>

\* body: a nil reader, or a reader
Body(body) ==
    InstallProvider("Body", IF body = "nil" THEN NoProvider ELSE RawProvider)

BodyProvider(body) == InstallProvider("BodyProvider", body)

\* bodyJSON: nil, a value that encodes, a value that does not
BodyJSON(bodyJSON) ==
    InstallProvider("BodyJSON",
        IF bodyJSON = "nil" THEN NoProvider ELSE JSONProvider(bodyJSON = "encodable"))

BodyForm(bodyForm) ==
    InstallProvider("BodyForm",
        IF bodyForm = "nil" THEN NoProvider ELSE FormProvider(bodyForm = "encodable"))

Readers == {"nil", "reader"}
Payloads == {"nil", "encodable", "unencodable"}

(***************************************************************************)
(* net/url: Values, ParseQuery, Encode.                                    *)
(***************************************************************************)
\* the query keys of the model, in the order Encode sorts them
QKeys == <<"a", "b">>
KeySet == {QKeys[i] : i \in DOMAIN QKeys}
KeyInputs == {"", "a", "b"}
ValueInputs == {"", "1", "2"}

\* the values of key k among the tokens, in their order
TokenValues(tokens, k) ==
    LET sel == SelectSeq(tokens, LAMBDA t : t[1] = k)
    IN  [i \in 1..Len(sel) |-> sel[i][2]]

\* url.ParseQuery: an invalid escape is an error; the other pairs are kept
ParseQuery(rawq) ==
    [err |-> \E i \in DOMAIN rawq : rawq[i][1] = BadEscape,
     values |-> [k \in KeySet |-> TokenValues(rawq, k)]]

\* Values.Add of every value of w, key by key
ValuesAddAll(v, w) == [k \in KeySet |-> v[k] \o w[k]]

RECURSIVE EncodeFrom(_, _)
EncodeFrom(v, i) ==
    IF i > Len(QKeys)
    THEN <<>>
    ELSE [j \in 1..Len(v[QKeys[i]]) |-> <<QKeys[i], v[QKeys[i]][j]>>] \o EncodeFrom(v, i + 1)

\* Values.Encode: sorted by key, each key's values in their order
Encode(v) == EncodeFrom(v, 1)

(***************************************************************************)
(* go-querystring: Values of a url-tagged struct.                          *)
(***************************************************************************)
NilStruct == [kind |-> "nil", fields |-> <<>>]
\* struct{ A string `url:"a"` }{"1"}
StructA == [kind |-> "struct", fields |-> <<<<"a", "1">>>>]
\* struct{ B string `url:"b"`; A string `url:"a"`; X string `url:"-"` }{"3", "2", "x"}
StructBA == [kind |-> "struct", fields |-> <<<<"b", "3">>, <<"a", "2">>, <<"-", "x">>>>]
\* a value that is not a struct
NotAStruct == [kind |-> "other", fields |-> <<>>]
QueryStructs == {NilStruct, StructA, StructBA, NotAStruct}

\* goquery.Values: an error unless a struct; fields tagged "-" are skipped
GoqueryValues(queryStruct) ==
    [err |-> queryStruct.kind # "struct",
     values |-> [k \in KeySet |-> TokenValues(queryStruct.fields, k)]]

RECURSIVE EncodeStructs(_, _)
EncodeStructs(urlValues, structs) ==
    IF structs = <<>>
    THEN [err |-> FALSE, values |-> urlValues]
    ELSE LET q == GoqueryValues(structs[1])
         IN  IF q.err
             THEN [err |-> TRUE, values |-> urlValues]
             ELSE EncodeStructs(ValuesAddAll(urlValues, q.values), Tail(structs))

\* addQueryStructs: the URL's own query, then every structure, encoded
addQueryStructs(reqURL, structs) ==
    LET parsed == ParseQuery(reqURL.RawQuery)
        enc == EncodeStructs(parsed.values, structs)
    IN  IF parsed.err
        THEN [err |-> TRUE, url |-> reqURL]
        ELSE IF enc.err
             THEN [err |-> TRUE, url |-> reqURL]
             ELSE [err |-> FALSE, url |-> [reqURL EXCEPT !.RawQuery = Encode(enc.values)]]

(***************************************************************************)
(* Query maps (map[string]string) and the two merges of Send.              *)
(***************************************************************************)
EmptyMap == [k \in {} |-> ""]
MapSet(m, key, value) == [k \in DOMAIN m \cup {key} |-> IF k = key THEN value ELSE m[k]]
MapValues(m, k) == IF k \in DOMAIN m THEN <<m[k]>> ELSE <<>>

\* a variant of addQueryMap: Set in place of Add, each pair replacing the
\* values the key had
addQueryMapSet(reqURL, defaultQueryMap, qMap) ==
    IF DOMAIN defaultQueryMap # {} \/ DOMAIN qMap # {}
    THEN LET q == ParseQuery(reqURL.RawQuery).values
         IN  [reqURL EXCEPT !.RawQuery =
                 Encode([k \in KeySet |->
                           IF k \in DOMAIN qMap THEN <<qMap[k]>>
                           ELSE IF k \in DOMAIN defaultQueryMap THEN <<defaultQueryMap[k]>>
                           ELSE q[k]])]
    ELSE reqURL

\* addQueryMap: nothing when both maps are empty; else the URL's query
\* re-read (errors ignored), the defaults added, then the request's pairs
addQueryMap(reqURL, defaultQueryMap, qMap) ==
    IF DOMAIN defaultQueryMap # {} \/ DOMAIN qMap # {}
    THEN LET q == ParseQuery(reqURL.RawQuery).values
         IN  [reqURL EXCEPT !.RawQuery =
                 Encode([k \in KeySet |->
                           q[k] \o MapValues(defaultQueryMap, k) \o MapValues(qMap, k)])]
    ELSE reqURL

\* addHeaders onto the new request's empty header
addHeaders(defaultHeaders, headers) ==
    [k \in HeaderKeys |-> defaultHeaders[k] \o headers[k]]

(***************************************************************************)
(* Query structures and parameters of client and request.                  *)
(***************************************************************************)
ClientAddQueryStruct(queryStruct) ==
    /\ Len(cQueryStructs) < MaxStructs
    /\ cQueryStructs' = IF queryStruct # NilStruct
                        THEN Append(cQueryStructs, queryStruct)
                        ELSE cQueryStructs
    /\ last' = [op |-> "Client.AddQueryStruct", queryStruct |-> queryStruct]
    /\ sent' = <<>>
    /\ UNCHANGED <<baseURL, cHeader, cQueryMap, requestVars, doVars>>

\* a variant of QueryParamAdded: only the key is checked
QueryParamAddedKeyOnly(m, key, value) ==
    IF key # "" THEN MapSet(m, key, value) ELSE m

\* the map after AddQueryParam
QueryParamAdded(m, key, value) ==
    IF key # "" /\ value # "" THEN MapSet(m, key, value) ELSE m

ClientAddQueryParam(key, value) ==
    /\ cQueryMap' = QueryParamAdded(cQueryMap, key, value)
    /\ last' = [op |-> "Client.AddQueryParam", key |-> key, value |-> value]
    /\ sent' = <<>>
    /\ UNCHANGED <<baseURL, cHeader, cQueryStructs, requestVars, doVars>>

AddQueryStruct(queryStruct) ==
    /\ Len(queryStructs) < MaxStructs
    /\ queryStructs' = IF queryStruct # NilStruct
                       THEN Append(queryStructs, queryStruct)
                       ELSE queryStructs
    /\ last' = [op |-> "AddQueryStruct", queryStruct |-> queryStruct]
    /\ sent' = <<>>
    /\ UNCHANGED <<method, absoluteURL, header, bodyProvider, queryMap>>
    /\ UNCHANGED <<clientVars, doVars>>

AddQueryParam(key, value) ==
    /\ queryMap' = QueryParamAdded(queryMap, key, value)
    /\ last' = [op |-> "AddQueryParam", key |-> key, value |-> value]
    /\ sent' = <<>>
    /\ UNCHANGED <<method, absoluteURL, header, bodyProvider, queryStructs>>
    /\ UNCHANGED <<clientVars, doVars>>

(***************************************************************************)
(* Send.                                                                   *)
(***************************************************************************)
NoRequest == [nil |-> TRUE]

\* the method check of http.NewRequest
ValidMethod(m) == m # ""

\* r.queryStructs after Send: the client's structures are appended to the
\* request's own list, and the list is kept
SendStructs ==
    IF URLParse(absoluteURL).err
    THEN queryStructs
    ELSE IF Len(cQueryStructs) # 0
         THEN queryStructs \o cQueryStructs
         ELSE queryStructs

\* what Send returns: err is "" for a nil error
SendResult ==
    LET parsed == URLParse(absoluteURL)
        withStructs == addQueryStructs(parsed.url, SendStructs)
        reparsed == URLParse(URLStringOf(withStructs.url))
    IN  IF parsed.err
        THEN [err |-> "parse", req |-> NoRequest]
        ELSE IF withStructs.err
        THEN [err |-> "query", req |-> NoRequest]
        ELSE IF bodyProvider # NoProvider /\ ProviderBodyErr(bodyProvider)
        THEN [err |-> "body", req |-> NoRequest]
        ELSE IF ~ValidMethod(method) \/ reparsed.err
        THEN [err |-> "request", req |-> NoRequest]
        ELSE [err |-> "",
              req |-> [nil |-> FALSE,
                       Method |-> method,
                       URL |-> addQueryMap(reparsed.url, cQueryMap, queryMap),
                       Header |-> addHeaders(cHeader, header)]]

\* the results of the last two Sends made with no other call in between
SentAfter(out) == Append(IF Len(sent) = 2 THEN Tail(sent) ELSE sent, out)

Send ==
    /\ Len(queryStructs) <= MaxStructs
    /\ sent' = SentAfter(SendResult)
    /\ queryStructs' = SendStructs
    /\ last' = [op |-> "Send"]
    /\ UNCHANGED <<method, absoluteURL, header, bodyProvider, queryMap>>
    /\ UNCHANGED <<clientVars, doVars>>

(***************************************************************************)
(* Responses, their body streams, and the response decoder.                *)
(***************************************************************************)
StatusNoContent == 204
Statuses == {199, 200, StatusNoContent, 299, 300}
ContentLengths == {-1, 0, 2}

\* A body stream: what it holds, how many reads it takes to reach its end,
\* how far it has been read, whether it is closed.  A "broken" stream fails
\* on its next read.
BodyStream(kind) ==
    [kind |-> kind, len |-> IF kind = "empty" THEN 0 ELSE 2, pos |-> 0, closed |-> FALSE]
BodyKinds == {"json", "malformed", "broken"}

NoResponse == [nil |-> TRUE]
Response(status, length, kind) ==
    [nil |-> FALSE, StatusCode |-> status, ContentLength |-> length,
     Body |-> BodyStream(kind)]
Responses ==
    {Response(st, n, k) : st \in Statuses, n \in ContentLengths, k \in BodyKinds}

\* what the executor returns: a response and a nil error, no response and
\* an error, or a response together with an error
ExecutorResults ==
    {[resp |-> r, err |-> ""] : r \in Responses}
        \cup {[resp |-> NoResponse, err |-> "transport"]}
        \cup {[resp |-> r, err |-> "transport"] : r \in Responses}

\* a decode target: a nil pointer, the caller's value as passed in, or that
\* value after the body has been decoded into it
NilTarget == "nil"
Targets == {NilTarget, "untouched"}

\* jsonDecoder.Decode: JSON-decodes the body stream into v; a failed read,
\* an empty stream and malformed JSON are errors and leave v as it was
jsonDecode(body, v) ==
    CASE body.kind = "broken" -> [err |-> "read", body |-> body, v |-> v]
      [] body.kind = "empty" -> [err |-> "EOF", body |-> body, v |-> v]
      [] body.kind = "malformed" -> [err |-> "syntax", body |-> [body EXCEPT !.pos = 1], v |-> v]
      [] OTHER -> [err |-> "", body |-> [body EXCEPT !.pos = 1], v |-> "decoded"]

\* io.Copy(ioutil.Discard, body): reads until the end or a failed read
Drain(body) == IF body.kind = "broken" THEN body ELSE [body EXCEPT !.pos = body.len]
BodyClose(body) == [body EXCEPT !.closed = TRUE]

(***************************************************************************)
(* Do, decodeResponse, Decode.                                             *)
(***************************************************************************)
\* a variant of decodeTarget: a 2xx with a nil success target falls through
\* to the failure target
decodeTargetFallThrough(code, sV, fV) ==
    IF 200 <= code /\ code <= 299 /\ sV # NilTarget
    THEN "successV"
    ELSE IF fV # NilTarget THEN "failureV" ELSE "none"

\* decodeResponse: which target the decoder is called with, if any
decodeTarget(code, sV, fV) ==
    IF 200 <= code /\ code <= 299
    THEN IF sV # NilTarget THEN "successV" ELSE "none"
    ELSE IF fV # NilTarget THEN "failureV" ELSE "none"

\* decodeResponse: the error, the body as read, and the two targets after
decodeResponse(rsp, sV, fV) ==
    LET which == decodeTarget(rsp.StatusCode, sV, fV)
        dec == jsonDecode(rsp.Body, IF which = "successV" THEN sV ELSE fV)
    IN  IF which = "none"
        THEN [err |-> "", body |-> rsp.Body, successV |-> sV, failureV |-> fV, calls |-> <<>>]
        ELSE [err |-> dec.err, body |-> dec.body,
              successV |-> IF which = "successV" THEN dec.v ELSE sV,
              failureV |-> IF which = "failureV" THEN dec.v ELSE fV,
              calls |-> <<"decode:" \o which>>]

\* a variant of SkipDecode: the declared length is not looked at
SkipDecodeStatusOnly(rsp) == rsp.StatusCode = StatusNoContent

\* Don't try to decode on 204s or Content-Length is 0
SkipDecode(rsp) == rsp.StatusCode = StatusNoContent \/ rsp.ContentLength = 0

\* a variant of Deferred: the two calls deferred in the other order
DeferredCloseFirst(body) == [body |-> Drain(BodyClose(body)), calls |-> <<"close", "drain">>]

\* the two deferred calls, in the order they run: the drain (deferred last)
\* and then the close (deferred first)
Deferred(body) == [body |-> BodyClose(Drain(body)), calls |-> <<"drain", "close">>]

\* Do: everything one call does, given what the executor returns
DoResult(exec, sV, fV) ==
    IF exec.err # ""
    THEN [ret |-> [resp |-> ~exec.resp.nil, err |-> exec.err],
          resp |-> exec.resp, successV |-> sV, failureV |-> fV,
          trace |-> <<"exec">>]
    ELSE LET dec == IF ~SkipDecode(exec.resp) /\ (sV # NilTarget \/ fV # NilTarget)
                    THEN decodeResponse(exec.resp, sV, fV)
                    ELSE [err |-> "", body |-> exec.resp.Body,
                          successV |-> sV, failureV |-> fV, calls |-> <<>>]
             fin == Deferred(dec.body)
         IN  [ret |-> [resp |-> TRUE, err |-> dec.err],
              resp |-> [exec.resp EXCEPT !.Body = fin.body],
              successV |-> dec.successV, failureV |-> dec.failureV,
              trace |-> <<"exec">> \o dec.calls \o fin.calls]

SetDoVars(out) ==
    /\ ret' = out.ret
    /\ resp' = out.resp
    /\ successV' = out.successV
    /\ failureV' = out.failureV
    /\ trace' = out.trace

\* Do on a request of the caller's: it is handed to the executor, whose
\* result is exec
Do(exec, sV, fV) ==
    /\ SetDoVars(DoResult(exec, sV, fV))
    /\ last' = [op |-> "Do", successV |-> sV, failureV |-> fV]
    /\ UNCHANGED <<clientVars, requestVars, sent>>

\* a variant of DecodeResult: Do is called whatever Send returned
DecodeResultIgnoringSendError(exec, sV, fV) == DoResult(exec, sV, fV)

\* Decode: Send, and Do only when Send returned no error
DecodeResult(exec, sV, fV) ==
    IF SendResult.err # ""
    THEN [ret |-> [resp |-> FALSE, err |-> SendResult.err],
          resp |-> NoResponse, successV |-> sV, failureV |-> fV, trace |-> <<>>]
    ELSE DoResult(exec, sV, fV)

DecodeCall(op, exec, sV, fV) ==
    /\ Len(queryStructs) <= MaxStructs
    /\ sent' = SentAfter(SendResult)
    /\ queryStructs' = SendStructs
    /\ SetDoVars(DecodeResult(exec, sV, fV))
    /\ last' = [op |-> op, successV |-> sV, failureV |-> fV]
    /\ UNCHANGED <<method, absoluteURL, header, bodyProvider, queryMap>>
    /\ UNCHANGED clientVars

Decode(exec, sV, fV) == DecodeCall("Decode", exec, sV, fV)
DecodeSuccess(exec, sV) == DecodeCall("DecodeSuccess", exec, sV, NilTarget)

(***************************************************************************)
(* The state after New(baseURL) and NewRequest().                          *)
(***************************************************************************)
Init ==
    /\ baseURL \in BaseURLs
    /\ cHeader = EmptyHeader
    /\ cQueryStructs = <<>>
    /\ cQueryMap = EmptyMap
    /\ method = "GET"
    /\ absoluteURL = baseURL
    /\ header = EmptyHeader
    /\ bodyProvider = NoProvider
    /\ queryStructs = <<>>
    /\ queryMap = EmptyMap
    /\ last = [op |-> "NewRequest"]
    /\ sent = <<>>
    /\ successV = NilTarget
    /\ failureV = NilTarget
    /\ resp = NoResponse
    /\ ret = [resp |-> FALSE, err |-> ""]
    /\ trace = <<>>

(***************************************************************************)
(* Specifications.  Each one runs the calls its properties are about.      *)
(***************************************************************************)
\* the method-and-path setters
NextPath ==
    \/ \E p \in Paths : Path(p)
    \/ \E p \in Paths : RequestHead(p)
    \/ \E p \in Paths : Get(p)
    \/ \E p \in Paths : Post(p)
    \/ \E p \in Paths : Put(p)
    \/ \E p \in Paths : Patch(p)
    \/ \E p \in Paths : Delete(p)
    \/ \E p \in Paths : Options(p)
    \/ \E p \in Paths : Trace(p)
    \/ \E p \in Paths : Connect(p)

SpecPath == Init /\ [][NextPath]_vars

\* the body setters and the request's headers
NextBody ==
    \/ \E b \in Readers : Body(b)
    \/ \E b \in CustomProviders \cup {NoProvider} : BodyProvider(b)
    \/ \E b \in Payloads : BodyJSON(b)
    \/ \E b \in Payloads : BodyForm(b)
    \/ \E k \in HeaderKeyInputs, v \in HeaderValues : SetHeader(k, v)

SpecBody == Init /\ [][NextBody]_vars

\* the header and query-map defaults of the client, the request's own, and Send
NextSend ==
    \/ \E k \in {"x-key", "X-Key"}, v \in HeaderValues : ClientAddHeader(k, v)
    \/ \E k \in {"x-key", "X-Key"}, v \in HeaderValues : ClientSetHeader(k, v)
    \/ \E k \in {"x-key", "X-Key"}, v \in HeaderValues : SetHeader(k, v)
    \/ \E k \in KeyInputs, v \in ValueInputs : ClientAddQueryParam(k, v)
    \/ \E k \in KeyInputs, v \in ValueInputs : AddQueryParam(k, v)
    \/ Send

SpecSend == Init /\ [][NextSend]_vars

\* query structures of both scopes, a path with a query of its own, and Send
NextStructs ==
    \/ \E q \in QueryStructs : ClientAddQueryStruct(q)
    \/ \E q \in QueryStructs : AddQueryStruct(q)
    \/ \E p \in {PathWithQuery, PathBadQuery} : Get(p)
    \/ Send

SpecStructs == Init /\ [][NextStructs]_vars

\* Do, for every result of the executor and every pair of targets
NextDo ==
    \E e \in ExecutorResults, sV \in Targets, fV \in Targets : Do(e, sV, fV)

SpecDo == Init /\ [][NextDo]_vars

\* Decode after the calls that make Send fail, for one executor result of
\* each shape
SomeExecutorResults ==
    {[resp |-> Response(200, 2, "json"), err |-> ""],
     [resp |-> NoResponse, err |-> "transport"],
     [resp |-> Response(300, -1, "malformed"), err |-> "transport"]}

NextDecode ==
    \/ \E q \in {StructA, NotAStruct} : AddQueryStruct(q)
    \/ \E b \in Payloads : BodyJSON(b)
    \/ \E b \in CustomProviders : BodyProvider(b)
    \/ \E e \in SomeExecutorResults, sV \in Targets, fV \in Targets : Decode(e, sV, fV)
    \/ \E e \in SomeExecutorResults, sV \in Targets : DecodeSuccess(e, sV)

SpecDecode == Init /\ [][NextDecode]_vars

(***************************************************************************)
(* Properties.                                                             *)
(***************************************************************************)
DoOps == {"Do", "Decode", "DecodeSuccess"}
\* the last call reached the executor, which returned a nil error
ExecutorReturnedOK == last.op \in DoOps /\ trace # <<>> /\ ret.err # "transport"
\* the calls of the response decoder during the last call, in order
DecoderCalls == SelectSeq(trace, LAMBDA e : e \notin {"exec", "drain", "close"})
ExecutorCalls == Len(SelectSeq(trace, LAMBDA e : e = "exec"))
IsSuccess(code) == 200 <= code /\ code <= 299
\* a response the claims exempt from decoding: a 204, or a declared length of 0
NoContent(rsp) == rsp.StatusCode = 204 \/ rsp.ContentLength = 0
\* target v was handed to the decoder: it holds the body unless decoding failed
DecodedInto(name, v, other, otherIn) ==
    /\ DecoderCalls = <<"decode:" \o name>>
    /\ (ret.err = "" => v = "decoded")
    /\ other = otherIn

\* C1 (as stated): for a response that is not 204 and whose declared length
\* is not 0, a 2xx status with a non-nil success target decodes into the
\* success target; in every other case with a non-nil failure target (a 2xx
\* status with a nil success target included) the body is decoded into the
\* failure target; at most one target is decoded into.
C1_AsStated ==
    (ExecutorReturnedOK /\ ~NoContent(resp)) =>
        /\ Len(DecoderCalls) <= 1
        /\ IF IsSuccess(resp.StatusCode) /\ last.successV # NilTarget
           THEN DecodedInto("successV", successV, failureV, last.failureV)
           ELSE (last.failureV # NilTarget =>
                    DecodedInto("failureV", failureV, successV, last.successV))

\* C1 (amended): a 2xx status decodes into the success target when it is
\* non-nil and decodes nothing when it is nil, whatever the failure target;
\* a status outside 200..299 decodes into the failure target when it is
\* non-nil and decodes nothing when it is nil.  The other target is always
\* left as passed in, and at most one target is decoded into.
C1_DecodeDispatch ==
    (ExecutorReturnedOK /\ ~NoContent(resp)) =>
        /\ Len(DecoderCalls) <= 1
        /\ IF IsSuccess(resp.StatusCode)
           THEN IF last.successV # NilTarget
                THEN DecodedInto("successV", successV, failureV, last.failureV)
                ELSE /\ DecoderCalls = <<>>
                     /\ successV = last.successV /\ failureV = last.failureV
           ELSE IF last.failureV # NilTarget
                THEN DecodedInto("failureV", failureV, successV, last.successV)
                ELSE /\ DecoderCalls = <<>>
                     /\ successV = last.successV /\ failureV = last.failureV

\* a 200 with a nil success target and a non-nil failure target: nothing decoded
C1_Witness ==
    /\ ExecutorReturnedOK /\ ~NoContent(resp)
    /\ resp.StatusCode = 200 /\ resp.Body.kind = "json"
    /\ last.successV = NilTarget /\ last.failureV # NilTarget
    /\ failureV = "untouched" /\ DecoderCalls = <<>>

\* C2: when the executor returns, without error, a response whose status is
\* 204 or whose declared content length is 0, the decoder is not called,
\* both targets are as passed in, and the response is returned with a nil
\* error, whatever the targets.
C2_SkipDecode ==
    (ExecutorReturnedOK /\ NoContent(resp)) =>
        /\ DecoderCalls = <<>>
        /\ successV = last.successV /\ failureV = last.failureV
        /\ ret = [resp |-> TRUE, err |-> ""]

\* a 200 of declared length 0 with a JSON body and both targets non-nil
C2_Witness ==
    /\ ExecutorReturnedOK
    /\ resp.StatusCode = 200 /\ resp.ContentLength = 0 /\ resp.Body.kind = "json"
    /\ last.successV # NilTarget /\ last.failureV # NilTarget

\* the last two entries of the trace
TraceEnd == SubSeq(trace, Len(trace) - 1, Len(trace))

\* C3 (as stated): on every exit path of Do on which the executor produced a
\* response, an error returned together with a response included, the body
\* has been read to its end and then closed when Do returns.
C3_AsStated ==
    (last.op \in DoOps /\ trace # <<>> /\ ~resp.nil) =>
        /\ Len(trace) >= 2 /\ TraceEnd = <<"drain", "close">>
        /\ resp.Body.pos = resp.Body.len
        /\ resp.Body.closed

\* C3 (amended): on every exit path of Do on which the executor returned a
\* response and a nil error (decode skipped, succeeded or failed), the body
\* has been drained, that is read to its end or to its first failed read,
\* and then closed; when the executor returns an error together with a
\* response, Do returns without reading or closing the body.
C3_DrainThenClose ==
    /\ ExecutorReturnedOK =>
          /\ Len(trace) >= 2 /\ TraceEnd = <<"drain", "close">>
          /\ (resp.Body.kind # "broken" => resp.Body.pos = resp.Body.len)
          /\ resp.Body.closed
    /\ (last.op \in DoOps /\ ret.err = "transport" /\ ~resp.nil) =>
          /\ trace = <<"exec">>
          /\ resp.Body.pos = 0 /\ ~resp.Body.closed

\* a failed decode of a malformed body, drained to its end and closed
C3_Witness ==
    /\ ExecutorReturnedOK /\ ret.err = "syntax"
    /\ trace = <<"exec", "decode:failureV", "drain", "close">>
    /\ resp.Body.pos = resp.Body.len /\ resp.Body.closed

(***************************************************************************)
(* Properties of Send and of the builder.                                  *)
(***************************************************************************)
LastSent == sent[Len(sent)]
SendSucceeded == last.op = "Send" /\ sent # <<>> /\ LastSent.err = ""
\* the values of key k in the query string of a request
QueryValuesOf(req, k) == TokenValues(req.URL.RawQuery, k)
\* the values the structures of a list produce for key k, in the list's order
RECURSIVE StructValues(_, _)
StructValues(structs, k) ==
    IF structs = <<>>
    THEN <<>>
    ELSE TokenValues(structs[1].fields, k) \o StructValues(Tail(structs), k)

\* C4 (as stated): Send encodes the client's structures first, in the order
\* they were added, and the request's structures after them: for every key
\* the values of the final query string are the URL's own, then the
\* client's, then the request's.
C4_ClientStructsFirst ==
    [][(last'.op = "Send" /\ sent'[Len(sent')].err = "") =>
          \A k \in KeySet :
              QueryValuesOf(sent'[Len(sent')].req, k) =
                  TokenValues(absoluteURL.rawq, k)
                      \o StructValues(cQueryStructs, k)
                      \o StructValues(queryStructs, k)]_vars

\* C5: in the request of a successful Send, the values of every header key
\* are the client's followed by the request's own, and the values of every
\* query key are those already on the URL, then the client's map value,
\* then the request's map value: nothing is dropped or replaced.
C5_MergeAdditive ==
    SendSucceeded =>
        /\ \A k \in HeaderKeys : LastSent.req.Header[k] = cHeader[k] \o header[k]
        /\ \A k \in KeySet :
              QueryValuesOf(LastSent.req, k) =
                  TokenValues(absoluteURL.rawq, k)
                      \o StructValues(queryStructs, k)
                      \o (IF k \in DOMAIN cQueryMap THEN <<cQueryMap[k]>> ELSE <<>>)
                      \o (IF k \in DOMAIN queryMap THEN <<queryMap[k]>> ELSE <<>>)

\* both scopes hold header X-Key and query key b, which the URL holds too
C5_Witness ==
    /\ SendSucceeded
    /\ baseURL = BaseQuery
    /\ Len(cHeader["X-Key"]) = 2 /\ header["X-Key"] # <<>>
    /\ "b" \in DOMAIN cQueryMap /\ "b" \in DOMAIN queryMap
    /\ QueryValuesOf(LastSent.req, "b") = <<"0", cQueryMap["b"], queryMap["b"]>>

BodyOps == {"Body", "BodyProvider", "BodyJSON", "BodyForm"}
\* the header's first value for a key, "" when it has none
HeaderGet(h, key) ==
    LET vs == h[CanonicalHeaderKey(key)] IN IF vs = <<>> THEN "" ELSE vs[1]

\* C6 (as stated): after body setters with non-nil arguments the active
\* provider is the one of the last call and the Content-Type header is the
\* one that provider declares (none for an empty content type).  States
\* whose Content-Type was written by SetHeader are left out.
C6_AsStated ==
    (/\ last.op \in BodyOps
     /\ last.body # NoProvider
     /\ HeaderGet(header, contentType) \notin HeaderValues) =>
        /\ bodyProvider = last.body
        /\ HeaderGet(header, contentType) = ProviderContentType(last.body)

\* C6 (amended): every body setter with a non-nil argument makes its
\* provider the active one; it sets the Content-Type header to the content
\* type the provider declares when that is non-empty, and leaves the header
\* as it was when it is empty (a raw body), so an earlier provider's content
\* type then remains.  No other header changes.
C6_ProviderReplaced ==
    [][(last'.op \in BodyOps /\ last'.body # NoProvider) =>
          /\ bodyProvider' = last'.body
          /\ header'[contentType] =
                 IF ProviderContentType(last'.body) # ""
                 THEN <<ProviderContentType(last'.body)>>
                 ELSE header[contentType]
          /\ header'["X-Key"] = header["X-Key"]]_vars

\* a raw body set after a JSON body: the provider is the raw one, the
\* Content-Type still application/json
C6_Witness ==
    /\ last.op = "Body"
    /\ bodyProvider = RawProvider
    /\ header[contentType] = <<jsonContentType>>

\* a call of Send on this state must fail
SendMustFail ==
    \/ URLParse(absoluteURL).err
    \/ \E i \in DOMAIN absoluteURL.rawq : absoluteURL.rawq[i][1] = BadEscape
    \/ \E i \in DOMAIN queryStructs : queryStructs[i].kind # "struct"
    \/ bodyProvider.kind \in {"json", "form", "custom"} /\ ~bodyProvider.ok

\* C7: when Send fails, Decode returns a nil response with Send's error and
\* the executor is not called; when Send succeeds, Decode calls the
\* executor exactly once.
C7_DecodeAfterSend ==
    (last.op \in {"Decode", "DecodeSuccess"}) =>
        IF SendMustFail
        THEN /\ LastSent.err \in {"parse", "query", "body", "request"}
             /\ ret = [resp |-> FALSE, err |-> LastSent.err]
             /\ resp = NoResponse
             /\ ExecutorCalls = 0
        ELSE /\ LastSent.err = ""
             /\ ExecutorCalls = 1

\* Decode with a structure that does not encode: no executor call
C7_Witness ==
    /\ last.op = "Decode"
    /\ baseURL = BaseDir
    /\ \E i \in DOMAIN queryStructs : queryStructs[i] = NotAStruct
    /\ ret = [resp |-> FALSE, err |-> "query"]
    /\ trace = <<>>

\* C8: each method-and-path setter sets the method; when the client's base
\* URL and the path both parse, the URL becomes the path resolved against
\* the client's base URL, and otherwise it stays what it was.
C8_MethodAndPath ==
    [][(last'.op \in Methods) =>
          /\ method' = last'.op
          /\ absoluteURL' =
                 IF ~URLParse(baseURL).err /\ ~URLParse(last'.path).err
                 THEN URLStringOf(ResolveReference(URLParse(baseURL).url,
                                                   URLParse(last'.path).url))
                 ELSE absoluteURL]_vars

\* POST with an unparseable path after a path that resolved: URL kept
C8_Witness ==
    /\ last.op = "POST" /\ last.path = PathCtl
    /\ method = "POST"
    /\ absoluteURL = URLString(FALSE, "example.com", TRUE, <<"api", "w">>, FALSE, <<<<"a", "9">>>>)

\* AddQueryParam(key, value) on map m, every other field of both objects kept
QueryParamStep(m, mAfter, key, value, kept) ==
    IF key = "" \/ value = ""
    THEN mAfter = m /\ kept
    ELSE /\ DOMAIN mAfter = DOMAIN m \cup {key}
         /\ mAfter[key] = value
         /\ \A k \in DOMAIN m \ {key} : mAfter[k] = m[k]
         /\ kept

\* C9: AddQueryParam, on the client and on a request, changes nothing when
\* the key or the value is empty; otherwise the map holds exactly that
\* value for the key, replacing an earlier one, and nothing else changes.
C9_AddQueryParam ==
    [][/\ (last'.op = "Client.AddQueryParam") =>
             QueryParamStep(cQueryMap, cQueryMap', last'.key, last'.value,
                            UNCHANGED <<baseURL, cHeader, cQueryStructs, requestVars>>)
       /\ (last'.op = "AddQueryParam") =>
             QueryParamStep(queryMap, queryMap', last'.key, last'.value,
                            UNCHANGED <<method, absoluteURL, header, bodyProvider,
                                        queryStructs, clientVars>>)]_vars

\* an empty value given for a key the request's map already holds
C9_Witness ==
    /\ last.op = "AddQueryParam" /\ last.key = "a" /\ last.value = ""
    /\ "a" \in DOMAIN queryMap /\ queryMap["a"] = "2"

\* C10 (as stated): Send leaves the request as it was, and a Send that
\* directly follows a Send returns the same request.
C10_SendKeepsRequest ==
    [][(last'.op = "Send") =>
          /\ requestVars' = requestVars
          /\ (last.op = "Send" => sent'[Len(sent')] = sent[Len(sent)])]_vars

====
